---------------------------- MODULE Spec2Model ----------------------------
(***************************************************************************)
(* Model of tools/finder.py: LibraryFinder.find (the work-queue walk over  *)
(* a directory tree), its classification predicates, and main (JSON        *)
(* output to a file or to standard output).                                *)
(*                                                                         *)
(* A string is a sequence of character codes (ASCII), a path is the        *)
(* sequence of its components (pathlib's parts), so that str(path), the    *)
(* order of sorted(paths) and json.dumps are computed, not assumed.        *)
(***************************************************************************)
EXTENDS Integers, Sequences, FiniteSets, TLC

(***************************************************************************)
(* Bounds of the model.                                                    *)
(***************************************************************************)
\* longest root list given to find / main
MaxRoots == 2
\* largest ignore list
MaxIgnore == 1
\* the pop / introspection counters stop counting here
CountCap == 4

(***************************************************************************)
(* Strings                                                                 *)
(***************************************************************************)
Max(S) == CHOOSE x \in S : \A y \in S : y <= x

Min2(a, b) == IF a <= b THEN a ELSE b

\* str < str: the first differing character decides, by code point; a
\* proper prefix is smaller
StrLess(s, t) ==
  \E k \in 1..(Min2(Len(s), Len(t)) + 1) :
     /\ \A i \in 1..(k - 1) : s[i] = t[i]
     /\ \/ k > Len(s) /\ k <= Len(t)
        \/ k <= Len(s) /\ k <= Len(t) /\ s[k] < t[k]

\* PurePath.__lt__: the lists of parts are compared, the first differing
\* part deciding, each part compared as a string
PathLess(p, q) ==
  \E k \in 1..(Min2(Len(p), Len(q)) + 1) :
     /\ \A i \in 1..(k - 1) : p[i] = q[i]
     /\ \/ k > Len(p) /\ k <= Len(q)
        \/ k <= Len(p) /\ k <= Len(q) /\ StrLess(p[k], q[k])

\* "/".join(parts)
Join(parts) ==
  LET joined[n \in 0..Len(parts)] ==
        IF n = 0 THEN <<>>
        ELSE IF n = 1 THEN parts[1]
        ELSE joined[n - 1] \o <<47>> \o parts[n]
  IN joined[Len(parts)]

\* str(path)
Str(path) == Join(path)

\* Path(string): the string split at "/"
SplitPath(s) ==
  LET slashes == {i \in 1..Len(s) : s[i] = 47}
      n == Cardinality(slashes)
      \* the position of the k-th slash; 0 and Len(s) + 1 bound the string
      slash(k) == IF k = 0 THEN 0
                  ELSE IF k = n + 1 THEN Len(s) + 1
                  ELSE CHOOSE i \in slashes :
                         Cardinality({j \in slashes : j < i}) = k - 1
  IN [k \in 1..(n + 1) |-> SubSeq(s, slash(k - 1) + 1, slash(k) - 1)]

\* path.name
Name(path) == path[Len(path)]

\* path.suffix: from the last dot of the name, unless the dot is the first
\* or the last character
Suffix(path) ==
  LET name == Name(path)
      dots == {i \in 1..Len(name) : name[i] = 46}
  IN IF dots = {} THEN <<>>
     ELSE LET i == Max(dots)
          IN IF i > 1 /\ i < Len(name) THEN SubSeq(name, i, Len(name)) ELSE <<>>

\* path / name
Child(path, name) == Append(path, name)

IsPrefix(p, q) == Len(p) <= Len(q) /\ SubSeq(q, 1, Len(p)) = p

(***************************************************************************)
(* Program constants                                                       *)
(***************************************************************************)
\* "__pycache__"
BLACKLIST == {<<95, 95, 112, 121, 99, 97, 99, 104, 101, 95, 95>>}

\* "__init__.robot", "__init__.txt"
INIT_FILES ==
  {<<95, 95, 105, 110, 105, 116, 95, 95, 46, 114, 111, 98, 111, 116>>,
   <<95, 95, 105, 110, 105, 116, 95, 95, 46, 116, 120, 116>>}

\* ".robot", ".resource", ".txt"
EXTENSIONS ==
  {<<46, 114, 111, 98, 111, 116>>,
   <<46, 114, 101, 115, 111, 117, 114, 99, 101>>,
   <<46, 116, 120, 116>>}

\* "__init__.py"
InitPy == <<95, 95, 105, 110, 105, 116, 95, 95, 46, 112, 121>>

\* ".py"
DotPy == <<46, 112, 121>>

(***************************************************************************)
(* The directory trees, ignore lists and root lists the runs are given     *)
(***************************************************************************)
\* a            a package directory
dirA == <<<<97>>>>
\* a/__init__.py
fileAInit == <<<<97>>, InitPy>>
\* a/x.py
fileAX == <<<<97>>, <<120, 46, 112, 121>>>>
\* a/r.robot
fileAR == <<<<97>>, <<114, 46, 114, 111, 98, 111, 116>>>>
\* a/__pycache__
dirACache == <<<<97>>, <<95, 95, 112, 121, 99, 97, 99, 104, 101, 95, 95>>>>
\* a/__pycache__/x.py
fileACacheX == Child(dirACache, <<120, 46, 112, 121>>)
\* a.txt        a directory whose name carries a resource extension
dirT == <<<<97, 46, 116, 120, 116>>>>
\* a.txt/__init__.py
fileTInit == Child(dirT, InitPy)
\* a.txt/x.py
fileTX == Child(dirT, <<120, 46, 112, 121>>)

Universe ==
  {dirA, fileAInit, fileAX, fileAR, dirACache, fileACacheX, dirT, fileTInit, fileTX}

Dirs == {dirA, dirACache, dirT}

\* files that a tree may or may not hold
OptionalFiles == {fileAInit}

Trees == {Universe \ S : S \in SUBSET OptionalFiles}

\* section headers a text file can hold
Headers == {"Keywords", "Tasks"}

Contents == [{fileAR} -> SUBSET Headers]

\* what LibraryDocumentation(path) does: reports keywords, reports none,
\* or raises DataError
DocChoices(p) ==
  IF p \in {dirA, fileAX} THEN {"keywords", "empty", "DataError"}
  ELSE IF p = dirT THEN {"keywords", "empty"}
  ELSE IF p \in {fileACacheX, fileTX} THEN {"keywords"}
  ELSE {"DataError"}

Docs == {d \in [Universe -> {"keywords", "empty", "DataError"}] :
           \A p \in Universe : d[p] \in DocChoices(p)}

\* os.listdir order of a directory: ascending or descending by name
Listings == {"asc", "desc"}

IgnoreCandidates == {dirA, fileAX, dirT}

Ignores == {S \in SUBSET IgnoreCandidates : Cardinality(S) <= MaxIgnore}

RootCandidates == {dirA, fileAX, dirT}

RECURSIVE SeqsUpTo(_, _)
SeqsUpTo(S, n) ==
  IF n = 0 THEN {<<>>}
  ELSE LET shorter == SeqsUpTo(S, n - 1)
       IN shorter \cup {Append(s, x) : s \in {t \in shorter : Len(t) = n - 1}, x \in S}

\* argparse nargs="+": at least one path
RootLists == SeqsUpTo(RootCandidates, MaxRoots) \ {<<>>}

\* "out.json"
OutJson == <<111, 117, 116, 46, 106, 115, 111, 110>>

\* args.output: None or the path given with --output
None == <<>>
OutputArgs == {None, <<OutJson>>}


(***************************************************************************)
(* The file system and the documentation facility, as one record w:        *)
(*   w.tree    the paths that exist        w.content  headers of text files*)
(*   w.doc     LibraryDocumentation's outcome per path                     *)
(*   w.entries the entries of each directory, in the order it lists them   *)
(*   w.ignore  self.ignore                                                 *)
(***************************************************************************)
\* path.is_dir()
is_dir(w, path) == path \in w.tree /\ path \in Dirs

\* path.is_file()
is_file(w, path) == path \in w.tree /\ path \notin Dirs

\* sorted(paths): ascending in the order of Path objects
SortPaths(S) ==
  [i \in 1..Cardinality(S) |->
     CHOOSE x \in S : Cardinality({y \in S : PathLess(y, x)}) = i - 1]

Reverse(s) == [i \in 1..Len(s) |-> s[Len(s) + 1 - i]]

\* the entries of the directories of tree t, listed in order l
Listing(t, l) ==
  [d \in Dirs |->
     LET children == SortPaths({p \in t : Len(p) = Len(d) + 1 /\ IsPrefix(d, p)})
     IN IF l = "asc" THEN children ELSE Reverse(children)]

Worlds ==
  {[tree |-> t, content |-> c, doc |-> d, entries |-> Listing(t, l), ignore |-> i] :
     t \in Trees, c \in Contents, d \in Docs, l \in Listings, i \in Ignores}

\* path.iterdir(): the direct children, in the directory's listing order
iterdir(w, path) == w.entries[path]

\* path.glob("**/*"): every file and directory beneath path
glob(w, path) == {p \in w.tree : IsPrefix(path, p) /\ p # path}

(***************************************************************************)
(* Classification predicates.  Each evaluates to "True", "False", or to    *)
(* the exception it raises: "DataError" or "OSError".                      *)
(***************************************************************************)
\* bool(LibraryDocumentation(str(path)).keywords)
has_keywords(w, path) ==
  IF w.doc[path] = "DataError" THEN "DataError"
  ELSE IF w.doc[path] = "keywords" THEN "True"
  ELSE "False"

\* a test against the ignore list that forgets the blacklist
should_ignore_list_only(w, path) == path \in w.ignore

should_ignore(w, path) == path \in w.ignore \/ Name(path) \in BLACKLIST

is_module_library(w, path) ==
  IF ~is_file(w, Child(path, InitPy)) THEN "False"
  ELSE has_keywords(w, path)

is_library_file(w, path) ==
  IF Suffix(path) # DotPy THEN "False"
  ELSE IF Name(path) = InitPy THEN "False"
  ELSE has_keywords(w, path)

\* open(path) raises IsADirectoryError on a directory and FileNotFoundError
\* on a missing path; a file without recorded text matches no header
is_resource_file(w, path) ==
  IF Name(path) \in INIT_FILES \/ Suffix(path) \notin EXTENSIONS THEN "False"
  ELSE IF ~is_file(w, path) THEN "OSError"
  ELSE LET data == IF path \in DOMAIN w.content THEN w.content[path] ELSE {}
           kw == "Keywords" \in data
           tasks == "Tasks" \in data
       IN IF ~tasks /\ kw THEN "True" ELSE "False"

is_keyword_file(w, path) ==
  LET lib == is_library_file(w, path)
  IN IF lib = "False" THEN is_resource_file(w, path) ELSE lib

\* the has_keywords calls one evaluation of the loop body makes on path
Introspects(w, path) ==
  IF should_ignore(w, path) THEN FALSE
  ELSE IF is_dir(w, path) THEN is_file(w, Child(path, InitPy))
  ELSE Suffix(path) = DotPy /\ Name(path) # InitPy

(***************************************************************************)
(* One evaluation of the loop body of find on a popped path:               *)
(*   add     the paths it adds to `paths`                                  *)
(*   push    the paths it appends to `stack`                               *)
(*   raised  "no", "DataError" (caught at line 51) or "OSError" (escapes)  *)
(***************************************************************************)
Outcome(add, push, raised) == [add |-> add, push |-> push, raised |-> raised]

\* lines 40-45: the comprehension tests `path`, the directory, for every
\* `file` the glob yields
\* a module library that is recorded and then walked like any directory
RecordModuleAndWalk(w, path) ==
  Outcome({path}, iterdir(w, path), "no")

RecordModule(w, path) ==
  LET files == glob(w, path)
      test == is_resource_file(w, path)
  IN IF files # {} /\ test = "OSError" THEN Outcome({}, <<>>, "OSError")
     ELSE Outcome({path} \cup {file \in files : test = "True"}, <<>>, "no")

Visit(w, path) ==
  IF should_ignore(w, path) THEN Outcome({}, <<>>, "no")
  ELSE IF is_dir(w, path)
    THEN LET lib == is_module_library(w, path)
         IN IF lib = "DataError" THEN Outcome({}, <<>>, "DataError")
            ELSE IF lib = "True" THEN RecordModule(w, path)
            ELSE Outcome({}, iterdir(w, path), "no")
    ELSE LET kw == is_keyword_file(w, path)
         IN IF kw \in {"DataError", "OSError"} THEN Outcome({}, <<>>, kw)
            ELSE IF kw = "True" THEN Outcome({path}, <<>>, "no")
            ELSE Outcome({}, <<>>, "no")

\* stack.pop(0): the front of the queue.  fromBack is the variant of the
\* loop that pops the last element instead.
PopIndex(stk, fromBack) == IF fromBack THEN Len(stk) ELSE 1

Remove(stk, i) == SubSeq(stk, 1, i - 1) \o SubSeq(stk, i + 1, Len(stk))

\* the try around the whole loop: a DataError ends the walk
StepStopsOnDataError(w, stk, acc, fromBack) ==
  LET i == PopIndex(stk, fromBack)
      path == stk[i]
      v == Visit(w, path)
  IN [stack |-> IF v.raised = "DataError" THEN <<>> ELSE Remove(stk, i) \o v.push,
      paths |-> acc \cup v.add,
      raised |-> v.raised,
      path |-> path]

\* the path read as stack[i] and removed at the end of the iteration,
\* which the `continue` of an ignored path skips
StepKeepsIgnored(w, stk, acc, fromBack) ==
  LET i == PopIndex(stk, fromBack)
      path == stk[i]
      v == Visit(w, path)
  IN [stack |-> IF should_ignore(w, path) THEN stk ELSE Remove(stk, i) \o v.push,
      paths |-> acc \cup v.add,
      raised |-> v.raised,
      path |-> path]

\* lines 30-52: one iteration of the while loop
Step(w, stk, acc, fromBack) ==
  LET i == PopIndex(stk, fromBack)
      path == stk[i]
      v == Visit(w, path)
  IN [stack |-> Remove(stk, i) \o v.push,
      paths |-> acc \cup v.add,
      raised |-> v.raised,
      path |-> path]

SortStrings(S) ==
  [i \in 1..Cardinality(S) |->
     CHOOSE x \in S : Cardinality({y \in S : StrLess(y, x)}) = i - 1]

\* the paths turned into strings first and sorted as strings
LibrariesSortedAsStrings(acc) == SortStrings({Str(p) : p \in acc})

\* line 54
Libraries(acc) == LET s == SortPaths(acc) IN [i \in 1..Len(s) |-> Str(s[i])]

\* find as a function: the loop run to its end from a queue and a result set
RECURSIVE RunFind(_, _, _, _)
RunFind(w, stk, acc, fromBack) ==
  IF stk = <<>> THEN [status |-> "returned", libraries |-> Libraries(acc)]
  ELSE LET s == Step(w, stk, acc, fromBack)
       IN IF s.raised = "OSError" THEN [status |-> "raised", libraries |-> <<>>]
          ELSE RunFind(w, s.stack, s.paths, fromBack)

Find(w, roots, fromBack) == RunFind(w, roots, {}, fromBack)

(***************************************************************************)
(* main: json.dumps(libraries, indent=2) and the output                    *)
(***************************************************************************)
Quoted(s) == <<34>> \o s \o <<34>>

\* the items, each on its own line after two spaces, a comma between them
JsonItems(list) ==
  LET items[n \in 1..Len(list)] ==
        IF n = 1 THEN <<32, 32>> \o Quoted(list[1])
        ELSE items[n - 1] \o <<44, 10, 32, 32>> \o Quoted(list[n])
  IN items[Len(list)]

\* "[]" for the empty list, else one item per line, indented by two
JsonDumps(list) ==
  IF list = <<>> THEN <<91, 93>>
  ELSE <<91, 10>> \o JsonItems(list) \o <<10, 93>>

\* open(name, "w"): creates or truncates the file when its directory exists
CanCreate(w, name) ==
  LET p == SplitPath(name)
      parent == SubSeq(p, 1, Len(p) - 1)
  IN /\ Name(p) # <<>>
     /\ parent = <<>> \/ is_dir(w, parent)
     /\ ~is_dir(w, p)


(***************************************************************************)
(* State                                                                   *)
(***************************************************************************)
VARIABLES
  w,            \* the file system, the documentation facility, self.ignore
  root,         \* args.paths, the argument of find
  stack,        \* find: the work queue
  paths,        \* find: the set of recorded paths
  libraries,    \* main: the list find returned
  pc,           \* "loop", "returned" (find is back in main), "exit",
                \* "find_raised", "main_raised" (an uncaught exception)
  output,       \* main: args.output, once main has read it
  written,      \* the files main has written: records [name, data]
  stdout,       \* what main has printed as its result
  popCount,     \* history: how often each path was popped from the queue
  docCalls,     \* history: how often each path was given to has_keywords
  queuedAtErr   \* history: the paths queued when a DataError was caught

vars ==
  <<w, root, stack, paths, libraries, pc, output, written, stdout,
    popCount, docCalls, queuedAtErr>>

Range(s) == {s[i] : i \in DOMAIN s}

Count(counter, path) == [counter EXCEPT ![path] = Min2(@ + 1, CountCap)]

\* lines 122-123 and 27: the finder is built and find starts on the roots
Start(worlds) ==
  /\ w \in worlds
  /\ root \in RootLists
  /\ stack = root
  /\ paths = {}
  /\ libraries = <<>>
  /\ pc = "loop"
  /\ output = None
  /\ written = {}
  /\ stdout = <<>>
  /\ popCount = [p \in Universe |-> 0]
  /\ docCalls = [p \in Universe |-> 0]
  /\ queuedAtErr = {}

Init == Start(Worlds)

\* what an iteration on the front of the queue adds to the history
History ==
  /\ popCount' = Count(popCount, Head(stack))
  /\ docCalls' = IF Introspects(w, Head(stack))
                   THEN Count(docCalls, Head(stack))
                   ELSE docCalls
  /\ queuedAtErr' = IF Visit(w, Head(stack)).raised = "DataError"
                      THEN queuedAtErr \cup Range(Tail(stack))
                      ELSE queuedAtErr

\* lines 29-52: an iteration that ends, a DataError being caught in it
find_step ==
  /\ pc = "loop"
  /\ stack # <<>>
  /\ LET s == Step(w, stack, paths, FALSE)
     IN /\ s.raised # "OSError"
        /\ stack' = s.stack
        /\ paths' = s.paths
        /\ History
  /\ UNCHANGED <<w, root, libraries, pc, output, written, stdout>>

\* lines 29-52: an iteration whose exception is not a DataError; it leaves
\* find and main
find_abort ==
  /\ pc = "loop"
  /\ stack # <<>>
  /\ LET s == Step(w, stack, paths, FALSE)
     IN /\ s.raised = "OSError"
        /\ stack' = s.stack
        /\ History
  /\ pc' = "find_raised"
  /\ UNCHANGED <<w, root, paths, libraries, output, written, stdout>>

\* line 54, back in main at line 123
find_return ==
  /\ pc = "loop"
  /\ stack = <<>>
  /\ libraries' = Libraries(paths)
  /\ pc' = "returned"
  /\ UNCHANGED <<w, root, stack, paths, output, written, stdout,
                 popCount, docCalls, queuedAtErr>>

\* lines 125-128 with --output: the file opened is named by `output`, the
\* local holding the JSON text
main_write ==
  /\ pc = "returned"
  /\ \E out \in OutputArgs \ {None} :
       LET json == JsonDumps(libraries)
       IN /\ output' = out
          /\ CanCreate(w, json)
          /\ written' = {f \in written : f.name # json}
                          \cup {[name |-> json, data |-> json]}
  /\ pc' = "exit"
  /\ UNCHANGED <<w, root, stack, paths, libraries, stdout,
                 popCount, docCalls, queuedAtErr>>

\* lines 125-127 with --output, open() raising
main_write_error ==
  /\ pc = "returned"
  /\ \E out \in OutputArgs \ {None} :
       /\ output' = out
       /\ ~CanCreate(w, JsonDumps(libraries))
  /\ pc' = "main_raised"
  /\ UNCHANGED <<w, root, stack, paths, libraries, written, stdout,
                 popCount, docCalls, queuedAtErr>>

\* lines 125-130 without --output
main_print ==
  /\ pc = "returned"
  /\ output' = None
  /\ stdout' = Append(stdout, JsonDumps(libraries))
  /\ pc' = "exit"
  /\ UNCHANGED <<w, root, stack, paths, libraries, written,
                 popCount, docCalls, queuedAtErr>>

Next ==
  \/ find_step
  \/ find_abort
  \/ find_return
  \/ main_write
  \/ main_write_error
  \/ main_print

Spec == Init /\ [][Next]_vars

\* The runs in which termination is examined: the trees, ignore lists,
\* root lists and documentation outcomes of Init, with one listing order
\* and one text in the resource file
LiveWorlds ==
  {[tree |-> t, content |-> [f \in {fileAR} |-> {"Keywords"}], doc |-> d,
    entries |-> Listing(t, "asc"), ignore |-> i] :
     t \in Trees, d \in Docs, i \in Ignores}

LiveInit == Start(LiveWorlds)

\* the interpreter runs the loop on: no iteration waits for anything
LiveSpec ==
  LiveInit /\ [][Next]_vars /\ WF_vars(find_step \/ find_abort \/ find_return)

TypeOK ==
  /\ w \in Worlds
  /\ root \in RootLists
  /\ Range(stack) \subseteq Universe
  /\ paths \subseteq Universe
  /\ pc \in {"loop", "returned", "exit", "find_raised", "main_raised"}
  /\ output \in OutputArgs


(***************************************************************************)
(* Properties                                                              *)
(***************************************************************************)
Returned == pc \in {"returned", "exit", "main_raised"}

\* the paths find returned, read back from the strings
ReturnedPaths == {SplitPath(libraries[i]) : i \in DOMAIN libraries}

\* p is in the ignore set, or its bare name is in the blacklist
IgnoredPath(p) == p \in w.ignore \/ Name(p) \in {<<95, 95, 112, 121, 99, 97, 99, 104, 101, 95, 95>>}

\* p and its ancestors, from the k-th component down
Chain(p, k) == {SubSeq(p, 1, n) : n \in k..Len(p)}

\* C1 as stated: no returned path is ignored, and none lies beneath an
\* ignored path, whatever the roots are.
C1_NothingUnderIgnored ==
  Returned => \A p \in ReturnedPaths : \A q \in Chain(p, 1) : ~IgnoredPath(q)

\* C1 amended: every returned path is reached from a root at or above it
\* without passing an ignored path; no returned path is itself ignored.
\* (A root given beneath an ignored path is walked all the same.)
C1_NothingReachedThroughIgnored ==
  Returned =>
    \A p \in ReturnedPaths :
      \E i \in DOMAIN root :
        /\ IsPrefix(root[i], p)
        /\ \A q \in Chain(p, Len(root[i])) : ~IgnoredPath(q)

C1_Witness ==
  /\ pc = "returned"
  /\ libraries # <<>>
  /\ \E q \in Universe : IgnoredPath(q) /\ popCount[q] > 0

\* C2: a directory recorded as a module library brings every resource file
\* beneath it, at any depth, into the result.
C2_ModuleResourcesRecorded ==
  Returned =>
    \A d \in Universe :
      (/\ popCount[d] > 0
       /\ ~IgnoredPath(d)
       /\ is_dir(w, d)
       /\ is_module_library(w, d) = "True")
      => /\ Str(d) \in Range(libraries)
         /\ \A f \in glob(w, d) :
              (is_file(w, f) /\ is_resource_file(w, f) = "True")
                => Str(f) \in Range(libraries)

\* C3: with --output FILE the JSON of the list is in FILE, nothing is
\* printed and no other file is written; without it the JSON is printed
\* and no file is written.
C3_OutputWhereAsked ==
  pc = "exit" =>
    IF output # None
      THEN /\ written = {[name |-> Str(output), data |-> JsonDumps(libraries)]}
           /\ stdout = <<>>
      ELSE /\ stdout = <<JsonDumps(libraries)>>
           /\ written = {}

\* C4 as stated: the returned strings are strictly ascending as strings.
C4_AscendingAsStrings ==
  Returned =>
    \A i \in 1..(Len(libraries) - 1) : StrLess(libraries[i], libraries[i + 1])

\* C4 amended: the returned strings are pairwise different and strictly
\* ascending in the order of paths: component by component, each component
\* compared as a string.
C4_AscendingAsPaths ==
  Returned =>
    /\ \A i, j \in DOMAIN libraries : i # j => libraries[i] # libraries[j]
    /\ \A i \in 1..(Len(libraries) - 1) :
         PathLess(SplitPath(libraries[i]), SplitPath(libraries[i + 1]))
    /\ Range(libraries) = {Str(p) : p \in paths}

\* a result in which the two orders disagree
C4_Witness ==
  /\ pc = "returned"
  /\ \E i \in 1..(Len(libraries) - 1) : StrLess(libraries[i + 1], libraries[i])

\* the candidate at the front of the queue raises DataError when evaluated
HeadRaisesDataError ==
  /\ pc = "loop"
  /\ stack # <<>>
  /\ ~IgnoredPath(Head(stack))
  /\ Introspects(w, Head(stack))
  /\ w.doc[Head(stack)] = "DataError"

\* q, evaluated on its own, is recorded
Qualifies(q) == q \in Visit(w, q).add

\* C5: a DataError raised for one candidate is caught in that iteration:
\* the loop goes on with every other queued candidate still queued and the
\* recorded paths kept, each of those candidates is dequeued, and a result
\* that is returned holds every one of them that qualifies.
C5_DataErrorIsolated ==
  /\ [][HeadRaisesDataError =>
          /\ pc' = "loop"
          /\ stack' = Tail(stack)
          /\ paths' = paths]_vars
  /\ [](Returned =>
          \A q \in queuedAtErr :
            /\ popCount[q] > 0
            /\ Qualifies(q) => Str(q) \in Range(libraries))

C5_Witness ==
  /\ pc = "returned"
  /\ \E q \in queuedAtErr : Qualifies(q) /\ Str(q) \in Range(libraries)

\* C6: a candidate whose introspection raises DataError gives the result
\* that the same run gives when the introspection reports no keyword.
C6_DataErrorAsNoKeywords ==
  \A c \in Universe :
    w.doc[c] = "DataError" =>
      LET other == Find([w EXCEPT !.doc[c] = "empty"], root, FALSE)
      IN /\ pc = "returned" => other = [status |-> "returned", libraries |-> libraries]
         /\ pc = "find_raised" => other.status = "raised"

\* the directory at the front of the queue is recorded as a module library
HeadRecordedAsModule ==
  /\ pc = "loop"
  /\ stack # <<>>
  /\ ~IgnoredPath(Head(stack))
  /\ is_dir(w, Head(stack))
  /\ is_file(w, Child(Head(stack), InitPy))
  /\ w.doc[Head(stack)] = "keywords"
  /\ pc' = "loop"

\* C7: the visit that records a directory as a module library appends
\* nothing to the queue and introspects nothing but the directory.
C7_ModuleNotWalked ==
  [][HeadRecordedAsModule =>
       /\ Head(stack) \in paths'
       /\ stack' = Tail(stack)
       /\ \A f \in Universe \ {Head(stack)} : docCalls'[f] = docCalls[f]]_vars

C7_Witness ==
  /\ pc = "returned"
  /\ dirA \in paths
  /\ w.doc[fileAX] = "keywords"
  /\ fileAX \notin paths
  /\ popCount[fileAX] = 0

\* C8 as stated: no path is popped, or classified, more than once.
C8_PoppedOnce ==
  \A p \in Universe : popCount[p] <= 1 /\ docCalls[p] <= 1

\* the entries of the root list that are p or an ancestor of p
RootsAbove(p) == {i \in DOMAIN root : IsPrefix(root[i], p)}

\* C8 amended: a path is popped, and classified, at most once for each
\* entry of the root list that is the path or an ancestor of it; with
\* pairwise different roots none of which lies beneath another, at most
\* once.
C8_PoppedOncePerRoot ==
  \A p \in Universe :
    /\ popCount[p] <= Cardinality(RootsAbove(p))
    /\ docCalls[p] <= popCount[p]

C8_Witness ==
  /\ pc = "returned"
  /\ \E p \in Universe : popCount[p] = 2 /\ Cardinality(RootsAbove(p)) = 2

\* C9: find comes to an end: it returns, or an error that is not a
\* DataError ends it.
C9_FindEnds == <>(pc # "loop")

C9_Witness ==
  /\ pc = "returned"
  /\ \E d \in Dirs : \E p \in Universe :
       Len(p) = Len(d) + 2 /\ IsPrefix(d, p) /\ popCount[d] > 0 /\ popCount[p] = 0
  /\ \E p \in Universe : Len(p) = 2 /\ popCount[p] > 0

Perms(s) ==
  {[i \in DOMAIN s |-> s[f[i]]] :
     f \in {g \in [DOMAIN s -> DOMAIN s] : \A i, j \in DOMAIN s : g[i] = g[j] => i = j}}

\* C10: popping from the back, and any order of the roots, give what the
\* run popping from the front gives.
C10_OrderIrrelevant ==
  \A r \in Perms(root) : \A fromBack \in BOOLEAN :
    LET other == Find(w, r, fromBack)
    IN /\ pc = "returned" => other = [status |-> "returned", libraries |-> libraries]
       /\ pc = "find_raised" => other.status = "raised"

C10_Witness ==
  /\ pc = "returned"
  /\ Len(root) = 2
  /\ root[1] # root[2]
  /\ queuedAtErr # {}
  /\ Len(libraries) >= 2

=============================================================================
